---------------------------- MODULE Spec2Model ----------------------------
(***************************************************************************)
(* A model of the update orchestration engine of uptodate                  *)
(* (src/src/updater.rs) together with the consumer of its event stream     *)
(* (src/src/ui/window.rs, handle_updates).                                 *)
(*                                                                         *)
(* The Updater owns an atomic flag `running` and a mutex-guarded vector    *)
(* `child_pids`.  run_updates() and stop() may be called by any number of  *)
(* callers; every accepted run_updates() spawns a task that walks the      *)
(* selected sources, and every spawned child process gets two detached     *)
(* tasks draining its stdout and stderr.  Each access to the shared flag,  *)
(* to the mutex, to a channel or to a process is one step of the model.    *)
(***************************************************************************)
EXTENDS Naturals, Sequences, FiniteSets, TLC

(***************************************************************************)
(* Bounds of the model.                                                    *)
(***************************************************************************)
MaxRuns == 2        \* number of run_updates() calls
MaxStops == 2       \* number of stop() calls
MaxSel == 2         \* longest selection handed to run_updates()
MaxArgs == 2        \* longest token vector handed to validate_command_args
MaxLines == 2       \* lines one child process writes to its pipes

RunIds == 1..MaxRuns
StopIds == 1..MaxStops

(***************************************************************************)
(* Strings: TLC treats a string as a sequence of characters.               *)
(***************************************************************************)
Contains(s, pat) ==
    \E i \in 1..(Len(s) + 1) :
        /\ i + Len(pat) - 1 <= Len(s)
        /\ SubSeq(s, i, i + Len(pat) - 1) = pat

Whitespace == {" ", "\t", "\r", "\n"}

\* the character U+0060; a string literal cannot hold it on its own
Backtick == SubSeq("`'", 1, 1)

\* line.trim().is_empty()
TrimIsEmpty(line) == \A i \in 1..Len(line) : SubSeq(line, i, i) \in Whitespace

(***************************************************************************)
(* The registry (Updater::init_managers) and the allow-list.               *)
(***************************************************************************)
PackageManager(name, check, update, sudo, desc) ==
    [name |-> name, check_cmd |-> check, update_cmd |-> update,
     needs_sudo |-> sudo, description |-> desc]

ALLOWED_MANAGERS ==
    {"paru", "apt", "dnf", "zypper", "apk", "flatpak", "snap", "pipx", "npm",
     "rustup", "brew"}

init_managers ==
    { PackageManager("paru", <<"paru", "-Qu">>,
                     <<"paru", "-Syu", "--noconfirm">>, TRUE, "System packages"),
      PackageManager("apt", <<"apt", "list", "--upgradable">>,
                     <<"sh", "-c", "apt update && apt upgrade -y">>, TRUE,
                     "System packages"),
      PackageManager("dnf", <<"dnf", "check-update">>,
                     <<"dnf", "upgrade", "-y">>, TRUE, "System packages"),
      PackageManager("zypper", <<"zypper", "list-updates">>,
                     <<"zypper", "update", "-y">>, TRUE, "System packages"),
      PackageManager("apk", <<"apk", "list", "--upgradable">>,
                     <<"sh", "-c", "apk update && apk upgrade">>, TRUE,
                     "System packages"),
      PackageManager("flatpak", <<"flatpak", "remote-ls", "--updates">>,
                     <<"flatpak", "update", "-y">>, FALSE, "Flatpak applications"),
      PackageManager("snap", <<"snap", "refresh", "--list">>,
                     <<"snap", "refresh">>, TRUE, "Snap packages"),
      PackageManager("pipx", <<"pipx", "list", "--outdated">>,
                     <<"sh", "-c",
                       "if command -v pipx >/dev/null 2>&1; then pipx upgrade-all; else pipx list --outdated --format=freeze | cut -d= -f1 | xargs -r pipx install --user --upgrade; fi">>,
                     FALSE, "Python packages"),
      PackageManager("npm", <<"npm", "outdated", "-g">>,
                     <<"sh", "-c",
                       "if [ -w \"$(npm config get prefix)\" ]; then npm update -g; else echo 'Note: npm global updates need write permissions. Consider using a Node version manager like nvm.'; fi">>,
                     FALSE, "Node.js packages"),
      PackageManager("rustup", <<"rustup", "check">>,
                     <<"rustup", "update">>, FALSE, "Rust toolchain"),
      PackageManager("brew", <<"brew", "outdated">>,
                     <<"sh", "-c", "brew update && brew upgrade">>, FALSE,
                     "Homebrew packages") }

\* self.managers: the HashMap keyed by manager.name
ManagerNames == { m.name : m \in init_managers }

\* managers.get(&source); defined for the registered names only
get_manager_info(name) == CHOOSE m \in init_managers : m.name = name


(***************************************************************************)
(* The security validator.  A result is Ok or Err(message).                *)
(***************************************************************************)
Ok == [ok |-> TRUE, err |-> ""]
Err(msg) == [ok |-> FALSE, err |-> msg]

MAX_ARG_LEN == 1000

\* validate_manager_security, had it looked the descriptor up in the catalog
validate_manager_security_ByRegistry(manager) ==
    IF manager \notin init_managers
    THEN Err("Unauthorized package manager: " \o manager.name
             \o ". Only trusted managers are allowed.")
    ELSE Ok

validate_manager_security(manager) ==
    IF manager.name \notin ALLOWED_MANAGERS
    THEN Err("Unauthorized package manager: " \o manager.name
             \o ". Only trusted managers are allowed.")
    ELSE Ok

\* the body of the loop, had the length check been `>=`
validate_arg_Inclusive(arg) ==
    IF \/ Contains(arg, "&&") \/ Contains(arg, "||")
       \/ Contains(arg, ";") \/ Contains(arg, Backtick)
    THEN Err("Invalid argument pattern detected: '" \o arg
             \o "'. Command injection patterns not allowed")
    ELSE IF Contains(arg, "> /dev/") \/ Contains(arg, ">> /dev/")
    THEN Err("Dangerous file redirection detected: '" \o arg \o "'")
    ELSE IF Len(arg) >= MAX_ARG_LEN
    THEN Err("Argument too long (potential buffer overflow): "
             \o ToString(Len(arg)) \o " characters")
    ELSE Ok

\* the body of the loop over args, for one arg
validate_arg(arg) ==
    IF \/ Contains(arg, "&&") \/ Contains(arg, "||")
       \/ Contains(arg, ";") \/ Contains(arg, Backtick)
    THEN Err("Invalid argument pattern detected: '" \o arg
             \o "'. Command injection patterns not allowed")
    ELSE IF Contains(arg, "> /dev/") \/ Contains(arg, ">> /dev/")
    THEN Err("Dangerous file redirection detected: '" \o arg \o "'")
    ELSE IF Len(arg) > MAX_ARG_LEN
    THEN Err("Argument too long (potential buffer overflow): "
             \o ToString(Len(arg)) \o " characters")
    ELSE Ok

RECURSIVE validate_command_args(_)
validate_command_args(args) ==
    IF args = <<>> THEN Ok
    ELSE IF ~validate_arg(Head(args)).ok THEN validate_arg(Head(args))
    ELSE validate_command_args(Tail(args))

(***************************************************************************)
(* UpdateEvent.  Every event is a record of the same shape; the fields a   *)
(* variant does not carry hold "" and FALSE.                               *)
(***************************************************************************)
Event(type, src, text, ok) == [type |-> type, src |-> src, text |-> text, ok |-> ok]
Started == Event("Started", "", "", FALSE)
SourceStarted(name) == Event("SourceStarted", name, "", FALSE)
SourceProgress(name, msg) == Event("SourceProgress", name, msg, FALSE)
SourceCompleted(name, ok) == Event("SourceCompleted", name, "", ok)
SourceError(name, msg) == Event("SourceError", name, msg, FALSE)
Completed(ok) == Event("Completed", "", "", ok)
Error(msg) == Event("Error", "", msg, FALSE)

(***************************************************************************)
(* Inputs.                                                                 *)
(***************************************************************************)
\* ids a caller may select: a manager whose commands pass validation, one
\* whose update command does not, and an id the registry does not hold
SourceIds == {"flatpak", "apt", "dnf", "unknown-id"}

\* the elements of a sequence
Range(q) == { q[i] : i \in 1..Len(q) }

RECURSIVE SeqsUpTo(_, _)
SeqsUpTo(S, n) ==
    IF n = 0 THEN {<<>>}
    ELSE SeqsUpTo(S, n - 1)
         \cup { Append(q, x) : q \in { t \in SeqsUpTo(S, n - 1) : Len(t) = n - 1 },
                               x \in S }

\* what a child process may print
Lines == {"Nothing to do", "error: failed"}

(***************************************************************************)
(* A scenario bounds one exploration: how many calls of run_updates() and  *)
(* of stop() are made, which selections and dry-run flags the callers      *)
(* pass, how many lines a child prints, and whether the operating system   *)
(* may fail the wait for a child.  Every bound of the model is at its      *)
(* maximum in one scenario at least.                                       *)
(***************************************************************************)
Scenario(n_runs, n_stops, sel, n_lines, ids, dry, racing, wait_fails) ==
    [runs |-> n_runs, stops |-> n_stops, sel |-> sel, lines |-> n_lines,
     ids |-> ids, dry |-> dry, racing |-> racing, wait_fails |-> wait_fails]

\* the longest selection of each call: n for all of them, or n for the first
\* call or the first two calls and the empty selection for the later ones
SelAll(n) == [r \in RunIds |-> n]
SelFirst(n) == [r \in RunIds |-> IF r = 1 THEN n ELSE 0]
SelFirstTwo(n) == [r \in RunIds |-> IF r <= 2 THEN n ELSE 0]

\* Callers are either on one thread (the window's main loop: run_updates()
\* has no suspension point between its test of the flag and its store, and
\* neither has stop(), so no other call starts in between) or racing on
\* several threads.
Scenarios ==
    { Scenario(MaxRuns, 1, SelFirstTwo(1), 0, {"flatpak"}, {FALSE}, FALSE, FALSE),
      Scenario(MaxRuns, 0, SelFirst(MaxSel), 0, {"apt", "flatpak"}, {FALSE}, TRUE, FALSE),
      Scenario(1, MaxStops, SelAll(1), 0, {"flatpak"}, {FALSE}, FALSE, TRUE),
      Scenario(1, 1, SelAll(MaxSel), 0, SourceIds, BOOLEAN, FALSE, FALSE),
      Scenario(1, 0, SelAll(1), MaxLines, {"flatpak"}, {TRUE}, FALSE, FALSE) }

(***************************************************************************)
(* State.                                                                  *)
(***************************************************************************)
VARIABLES
    running,      \* Updater.running, the AtomicBool
    child_pids,   \* Updater.child_pids, the Vec<u32> inside the mutex
    pids_lock,    \* holder of the mutex: 0 when free, else the stop() holding it
    runs,         \* per run_updates() call: the caller's and the task's locals
    stream,       \* per run: every event the channel accepted, in order
    closed,       \* per run: the Receiver has been dropped
    procs,        \* the child processes spawned so far; the pid is the index
    stops,        \* per stop() call: its position and locals
    scenario,     \* the scenario explored; it never changes
    call          \* the last call of a function that only returns a value

vars == <<running, child_pids, pids_lock, runs, stream, closed, procs, stops,
          scenario, call>>

NoRun ==
    [pc |-> "idle", sources |-> <<>>, dry_run |-> FALSE, idx |-> 1,
     success |-> TRUE, pid |-> 0, result |-> FALSE,
     \* history: a stop() stored `false` while this run was in progress; and
     \* the first such store fell after the run's first SourceStarted and
     \* before the task tested the flag for the next source
     stopped |-> FALSE, stopped_in_first |-> FALSE,
     \* history: when the call was made an earlier run had sent Completed
     \* and no other call was being served
     after_completed |-> FALSE]

NoStop ==
    [pc |-> "idle", was_running |-> FALSE, idx |-> 1, sent |-> <<>>,
     snapshot |-> <<>>, alive_at_call |-> {},
     \* history: how many run_updates() calls had been accepted when this
     \* stop() stored `false`
     runs_at_store |-> 0]

NoCall == [op |-> "none"]

\* Updater::new()
NewUpdater ==
    /\ running = FALSE
    /\ child_pids = <<>>
    /\ pids_lock = 0
    /\ runs = [r \in RunIds |-> NoRun]
    /\ stream = [r \in RunIds |-> <<>>]
    /\ closed = [r \in RunIds |-> FALSE]
    /\ procs = <<>>
    /\ stops = [s \in StopIds |-> NoStop]
    /\ call = NoCall

Init == NewUpdater /\ scenario \in Scenarios

\* Updater::is_running
is_running == running

\* tx.send(event).await.ok(): the channel is unbounded, so the send never
\* waits; it fails, and is ignored, once the receiver is gone
Send(r, event) ==
    stream' = [stream EXCEPT ![r] = IF closed[r] THEN @ ELSE Append(@, event)]


(***************************************************************************)
(* run_updates(): the caller's part.                                       *)
(***************************************************************************)
\* a run between its store of `true` and its store of `false`
InLoop(r) ==
    runs[r].pc \in {"guard", "lookup", "command", "push", "wait", "srcdone", "finish"}

\* a run between its store of `true` and its send of Completed
InProgress(r) == InLoop(r) \/ runs[r].pc = "complete"

\* the calls of run_updates() accepted so far (they have stored `true`)
AcceptedRuns ==
    Cardinality({ r \in RunIds : runs[r].pc \notin {"idle", "rejected", "accepted"} })

\* a call is between its test of the flag and its store
CallInFlight ==
    \/ \E r \in RunIds : runs[r].pc = "accepted"
    \/ \E s \in StopIds : stops[s].pc = "store"

\* a new call may start
CallerFree == scenario.racing \/ ~CallInFlight

\* the task has sent exactly one SourceStarted and has not yet tested the
\* flag for the source after it
InFirstSource(r) ==
    /\ Cardinality({ i \in 1..Len(stream[r]) : stream[r][i].type = "SourceStarted" }) = 1
    /\ runs[r].pc \in {"command", "push", "wait", "srcdone", "guard"}

\* some other run has sent Completed, and every other call has been rejected,
\* has sent Completed or has not been made
AfterCompleted(r) ==
    /\ \E q \in RunIds \ {r} : runs[q].pc = "done"
    /\ \A q \in RunIds \ {r} : runs[q].pc \in {"idle", "rejected", "done"}

\* RunCall without its test of the flag
RunCall_NoCheck(r, sources, dry_run) ==
    /\ runs[r].pc = "idle"
    /\ \A q \in RunIds : q < r => runs[q].pc # "idle"
    /\ r <= scenario.runs
    /\ CallerFree
    /\ runs' = [runs EXCEPT ![r] = [@ EXCEPT !.pc = "accepted", !.sources = sources,
                                             !.dry_run = dry_run,
                                             !.after_completed = AfterCompleted(r)]]
    /\ UNCHANGED <<scenario, call, running, child_pids, pids_lock, stream, closed, procs, stops>>

\* `if self.is_running() { return Err("Updates already running") }`
RunCall(r, sources, dry_run) ==
    /\ runs[r].pc = "idle"
    /\ \A q \in RunIds : q < r => runs[q].pc # "idle"
    /\ r <= scenario.runs
    /\ CallerFree
    /\ runs' = [runs EXCEPT ![r] =
                  IF is_running
                  THEN [@ EXCEPT !.pc = "rejected",
                                 !.after_completed = AfterCompleted(r)]
                  ELSE [@ EXCEPT !.pc = "accepted", !.sources = sources,
                                 !.dry_run = dry_run,
                                 !.after_completed = AfterCompleted(r)]]
    /\ UNCHANGED <<scenario, call, running, child_pids, pids_lock, stream, closed, procs, stops>>

\* running.store(true); unbounded(); tx.send(Started); task::spawn(..); Ok(rx)
RunAccept(r) ==
    /\ runs[r].pc = "accepted"
    /\ running' = TRUE
    /\ Send(r, Started)
    /\ runs' = [runs EXCEPT ![r].pc = "guard"]
    /\ UNCHANGED <<scenario, call, child_pids, pids_lock, closed, procs, stops>>

(***************************************************************************)
(* run_updates(): the spawned task.                                        *)
(***************************************************************************)
\* LoopGuard with `return` for `break`: the task ends at once
LoopGuard_Return(r) ==
    /\ runs[r].pc = "guard"
    /\ runs' = [runs EXCEPT ![r].pc =
                  IF runs[r].idx > Len(runs[r].sources) THEN "finish"
                  ELSE IF ~running THEN "done"
                  ELSE "lookup"]
    /\ UNCHANGED <<scenario, call, running, child_pids, pids_lock, stream, closed, procs, stops>>

\* `for source in sources { if !running.load() { break; } ..`
LoopGuard(r) ==
    /\ runs[r].pc = "guard"
    /\ runs' = [runs EXCEPT ![r].pc =
                  IF runs[r].idx > Len(runs[r].sources) THEN "finish"
                  ELSE IF ~running THEN "finish"
                  ELSE "lookup"]
    /\ UNCHANGED <<scenario, call, running, child_pids, pids_lock, stream, closed, procs, stops>>

\* LoopLookup that walks the selection from its end
LoopLookup_Reversed(r) ==
    /\ runs[r].pc = "lookup"
    /\ LET source == runs[r].sources[Len(runs[r].sources) + 1 - runs[r].idx] IN
       IF source \in ManagerNames
       THEN /\ Send(r, SourceStarted(get_manager_info(source).name))
            /\ runs' = [runs EXCEPT ![r].pc = "command"]
       ELSE /\ runs' = [runs EXCEPT ![r].pc = "guard", ![r].idx = @ + 1]
            /\ UNCHANGED stream
    /\ UNCHANGED <<scenario, call, running, child_pids, pids_lock, closed, procs, stops>>

\* LoopLookup that reports an id it does not find as a failure
LoopLookup_ReportUnknown(r) ==
    /\ runs[r].pc = "lookup"
    /\ LET source == runs[r].sources[runs[r].idx] IN
       IF source \in ManagerNames
       THEN /\ Send(r, SourceStarted(get_manager_info(source).name))
            /\ runs' = [runs EXCEPT ![r].pc = "command"]
       ELSE /\ Send(r, Error("Unknown source: " \o source))
            /\ runs' = [runs EXCEPT ![r].pc = "guard", ![r].idx = @ + 1,
                                    ![r].success = FALSE]
    /\ UNCHANGED <<scenario, call, running, child_pids, pids_lock, closed, procs, stops>>

\* `if let Some(manager) = managers.get(&source) { tx.send(SourceStarted) ..`
LoopLookup(r) ==
    /\ runs[r].pc = "lookup"
    /\ LET source == runs[r].sources[runs[r].idx] IN
       IF source \in ManagerNames
       THEN /\ Send(r, SourceStarted(get_manager_info(source).name))
            /\ runs' = [runs EXCEPT ![r].pc = "command"]
       ELSE /\ runs' = [runs EXCEPT ![r].pc = "guard", ![r].idx = @ + 1]
            /\ UNCHANGED stream
    /\ UNCHANGED <<scenario, call, running, child_pids, pids_lock, closed, procs, stops>>

\* cmd.join(" ")
RECURSIVE Join(_, _)
Join(cmd, sep) ==
    IF cmd = <<>> THEN ""
    ELSE IF Len(cmd) = 1 THEN cmd[1]
    ELSE cmd[1] \o sep \o Join(Tail(cmd), sep)

\* the command line run_command builds
CommandLine(cmd, needs_sudo) ==
    IF needs_sudo
    THEN <<"pkexec", "--user", "root", "sh", "-c", Join(cmd, " ")>>
    ELSE cmd

\* CommandOf that takes the update command always
CommandOf_Update(manager, dry_run) == manager.update_cmd

\* check_updates / run_update: the arguments they hand to run_command
CommandOf(manager, dry_run) ==
    IF dry_run THEN manager.check_cmd ELSE manager.update_cmd

\* SudoOf that wraps the check command as it wraps the update command
SudoOf_Always(manager, dry_run) == manager.needs_sudo

\* the needs_sudo argument check_updates / run_update hand to run_command
SudoOf(manager, dry_run) ==
    IF dry_run THEN FALSE ELSE manager.needs_sudo

SpawnError == "No such file or directory (os error 2)"

NewProc(r, name, argv) ==
    [state |-> "alive", ok |-> FALSE, run |-> r, name |-> name, argv |-> argv,
     out |-> <<>>, err |-> <<>>, written |-> 0, drain |-> FALSE, sigs |-> 0,
     \* what child.status() returned to the task: "no" until it has
     waited |-> "no",
     \* history: every line the child has written to each pipe
     wrote_out |-> <<>>, wrote_err |-> <<>>]

\* RunCommand that tries a failed spawn again
RunCommand_Retry(r) ==
    /\ runs[r].pc = "command"
    /\ LET manager == get_manager_info(runs[r].sources[runs[r].idx])
           cmd == CommandOf(manager, runs[r].dry_run)
           needs_sudo == SudoOf(manager, runs[r].dry_run)
           args == validate_command_args(cmd)
       IN  IF ~args.ok
           THEN /\ Send(r, SourceError(manager.name, args.err))
                /\ runs' = [runs EXCEPT ![r].pc = "srcdone", ![r].result = FALSE]
                /\ UNCHANGED procs
           ELSE \/ /\ procs' = Append(procs, NewProc(r, manager.name,
                                                    CommandLine(cmd, needs_sudo)))
                   /\ runs' = [runs EXCEPT ![r].pc = "push",
                                           ![r].pid = Len(procs) + 1]
                   /\ UNCHANGED stream
                \/ /\ Send(r, Error("Failed to run " \o manager.name \o ": "
                                    \o SpawnError))
                   /\ procs' = Append(procs, NewProc(r, manager.name,
                                                    CommandLine(cmd, needs_sudo)))
                   /\ runs' = [runs EXCEPT ![r].pc = "push",
                                           ![r].pid = Len(procs) + 1]
    /\ UNCHANGED <<scenario, call, running, child_pids, pids_lock, closed, stops>>

\* RunCommand that reports a rejected command and spawns it all the same
RunCommand_NoReturn(r) ==
    /\ runs[r].pc = "command"
    /\ LET manager == get_manager_info(runs[r].sources[runs[r].idx])
           cmd == CommandOf(manager, runs[r].dry_run)
           needs_sudo == SudoOf(manager, runs[r].dry_run)
           args == validate_command_args(cmd)
       IN  /\ IF args.ok THEN UNCHANGED stream
              ELSE Send(r, SourceError(manager.name, args.err))
           /\ procs' = Append(procs, NewProc(r, manager.name,
                                            CommandLine(cmd, needs_sudo)))
           /\ runs' = [runs EXCEPT ![r].pc = "push", ![r].pid = Len(procs) + 1]
    /\ UNCHANGED <<scenario, call, running, child_pids, pids_lock, closed, stops>>

\* run_command up to command.spawn()
RunCommand(r) ==
    /\ runs[r].pc = "command"
    /\ LET manager == get_manager_info(runs[r].sources[runs[r].idx])
           cmd == CommandOf(manager, runs[r].dry_run)
           needs_sudo == SudoOf(manager, runs[r].dry_run)
           sec == validate_manager_security(manager)
           args == validate_command_args(cmd)
       IN  IF ~sec.ok
           THEN /\ Send(r, SourceError(manager.name, sec.err))
                /\ runs' = [runs EXCEPT ![r].pc = "srcdone", ![r].result = FALSE]
                /\ UNCHANGED procs
           ELSE IF ~args.ok
           THEN /\ Send(r, SourceError(manager.name, args.err))
                /\ runs' = [runs EXCEPT ![r].pc = "srcdone", ![r].result = FALSE]
                /\ UNCHANGED procs
           ELSE \/ /\ procs' = Append(procs, NewProc(r, manager.name,
                                                    CommandLine(cmd, needs_sudo)))
                   /\ runs' = [runs EXCEPT ![r].pc = "push",
                                           ![r].pid = Len(procs) + 1]
                   /\ UNCHANGED stream
                \/ /\ Send(r, Error("Failed to run " \o manager.name \o ": "
                                    \o SpawnError))
                   /\ runs' = [runs EXCEPT ![r].pc = "srcdone",
                                           ![r].result = FALSE]
                   /\ UNCHANGED procs
    /\ UNCHANGED <<scenario, call, running, child_pids, pids_lock, closed, stops>>

\* `let mut pids = child_pids.lock().await; pids.push(pid);` and the spawn of
\* the two drain tasks
LoopPush(r) ==
    /\ runs[r].pc = "push"
    /\ pids_lock = 0
    /\ child_pids' = Append(child_pids, runs[r].pid)
    /\ procs' = [procs EXCEPT ![runs[r].pid].drain = TRUE]
    /\ runs' = [runs EXCEPT ![r].pc = "wait"]
    /\ UNCHANGED <<scenario, call, running, pids_lock, stream, closed, stops>>

\* LoopWait that gives up the source's report once the flag is false
LoopWait_AbortOnStop(r) ==
    /\ runs[r].pc = "wait"
    /\ procs[runs[r].pid].state = "exited"
    /\ pids_lock = 0
    /\ child_pids' = SelectSeq(child_pids, LAMBDA p : p # runs[r].pid)
    /\ procs' = [procs EXCEPT ![runs[r].pid].waited = "ok"]
    /\ runs' = [runs EXCEPT ![r].pc = IF running THEN "srcdone" ELSE "finish",
                            ![r].result = procs[runs[r].pid].ok]
    /\ UNCHANGED <<scenario, call, running, pids_lock, stream, closed, stops>>

\* LoopWait that returns on a failed wait without the retain
LoopWait_EarlyReturn(r) ==
    /\ runs[r].pc = "wait"
    /\ pids_lock = 0
    /\ \/ /\ procs[runs[r].pid].state = "exited"
          /\ procs' = [procs EXCEPT ![runs[r].pid].waited = "ok"]
          /\ runs' = [runs EXCEPT ![r].pc = "srcdone",
                                  ![r].result = procs[runs[r].pid].ok]
          /\ child_pids' = SelectSeq(child_pids, LAMBDA p : p # runs[r].pid)
       \/ /\ scenario.wait_fails
          /\ procs' = [procs EXCEPT ![runs[r].pid].waited = "err"]
          /\ runs' = [runs EXCEPT ![r].pc = "srcdone", ![r].result = FALSE]
          /\ UNCHANGED child_pids
    /\ UNCHANGED <<scenario, call, running, pids_lock, stream, closed, stops>>

\* `child.status().await.map(|s| s.success()).unwrap_or(false)`: the exit
\* status once the child has exited, or false when the wait itself fails;
\* then `pids.retain(|&p| p != pid)` under the lock
LoopWait(r) ==
    /\ runs[r].pc = "wait"
    /\ pids_lock = 0
    /\ \/ /\ procs[runs[r].pid].state = "exited"
          /\ procs' = [procs EXCEPT ![runs[r].pid].waited = "ok"]
          /\ runs' = [runs EXCEPT ![r].pc = "srcdone",
                                  ![r].result = procs[runs[r].pid].ok]
       \/ /\ scenario.wait_fails
          /\ procs' = [procs EXCEPT ![runs[r].pid].waited = "err"]
          /\ runs' = [runs EXCEPT ![r].pc = "srcdone", ![r].result = FALSE]
    /\ child_pids' = SelectSeq(child_pids, LAMBDA p : p # runs[r].pid)
    /\ UNCHANGED <<scenario, call, running, pids_lock, stream, closed, stops>>

\* LoopSourceDone that keeps the last result only
LoopSourceDone_LastResult(r) ==
    /\ runs[r].pc = "srcdone"
    /\ Send(r, SourceCompleted(get_manager_info(runs[r].sources[runs[r].idx]).name,
                               runs[r].result))
    /\ runs' = [runs EXCEPT ![r].pc = "guard", ![r].idx = @ + 1,
                            ![r].success = runs[r].result]
    /\ UNCHANGED <<scenario, call, running, child_pids, pids_lock, closed, procs, stops>>

\* `if !result { success = false; } tx.send(SourceCompleted(name, result))`
LoopSourceDone(r) ==
    /\ runs[r].pc = "srcdone"
    /\ Send(r, SourceCompleted(get_manager_info(runs[r].sources[runs[r].idx]).name,
                               runs[r].result))
    /\ runs' = [runs EXCEPT ![r].pc = "guard", ![r].idx = @ + 1,
                            ![r].success = @ /\ runs[r].result]
    /\ UNCHANGED <<scenario, call, running, child_pids, pids_lock, closed, procs, stops>>

\* LoopFinish without its store
LoopFinish_NoStore(r) ==
    /\ runs[r].pc = "finish"
    /\ runs' = [runs EXCEPT ![r].pc = "complete"]
    /\ UNCHANGED <<scenario, call, running, child_pids, pids_lock, stream, closed, procs, stops>>

\* `running.store(false)` after the loop
LoopFinish(r) ==
    /\ runs[r].pc = "finish"
    /\ running' = FALSE
    /\ runs' = [runs EXCEPT ![r].pc = "complete"]
    /\ UNCHANGED <<scenario, call, child_pids, pids_lock, stream, closed, procs, stops>>

\* `tx.send(Completed(success))`, the task's last statement
LoopCompleted(r) ==
    /\ runs[r].pc = "complete"
    /\ Send(r, Completed(runs[r].success))
    /\ runs' = [runs EXCEPT ![r].pc = "done"]
    /\ UNCHANGED <<scenario, call, running, child_pids, pids_lock, closed, procs, stops>>


(***************************************************************************)
(* stop().                                                                 *)
(***************************************************************************)
AlivePids == { p \in 1..Len(procs) : procs[p].state = "alive" }

\* StopCall without its test of the flag
StopCall_NoCheck(s) ==
    /\ stops[s].pc = "idle"
    /\ \A q \in StopIds : q < s => stops[q].pc # "idle"
    /\ s <= scenario.stops
    /\ CallerFree
    /\ stops' = [stops EXCEPT ![s] = [@ EXCEPT !.pc = "store",
                                               !.was_running = is_running,
                                               !.alive_at_call = AlivePids]]
    /\ UNCHANGED <<scenario, call, running, child_pids, pids_lock, runs, stream, closed, procs>>

\* `if self.is_running() {` .. `} Ok(())`
StopCall(s) ==
    /\ stops[s].pc = "idle"
    /\ \A q \in StopIds : q < s => stops[q].pc # "idle"
    /\ s <= scenario.stops
    /\ CallerFree
    /\ stops' = [stops EXCEPT ![s] =
                   IF is_running
                   THEN [@ EXCEPT !.pc = "store", !.was_running = TRUE,
                                  !.alive_at_call = AlivePids]
                   ELSE [@ EXCEPT !.pc = "done"]]
    /\ UNCHANGED <<scenario, call, running, child_pids, pids_lock, runs, stream, closed, procs>>

\* StopStore without its store
StopStore_NoStore(s) ==
    /\ stops[s].pc = "store"
    /\ stops' = [stops EXCEPT ![s].pc = "lock", ![s].runs_at_store = AcceptedRuns]
    /\ UNCHANGED <<scenario, call, running, child_pids, pids_lock, runs, stream, closed, procs>>

\* `self.running.store(false)`; every run then in progress has been stopped
StopStore(s) ==
    /\ stops[s].pc = "store"
    /\ running' = FALSE
    /\ stops' = [stops EXCEPT ![s].pc = "lock", ![s].runs_at_store = AcceptedRuns]
    /\ runs' = [r \in RunIds |->
                  IF InProgress(r) /\ ~runs[r].stopped
                  THEN [runs[r] EXCEPT !.stopped = TRUE,
                                       !.stopped_in_first = InFirstSource(r)]
                  ELSE runs[r]]
    /\ UNCHANGED <<scenario, call, child_pids, pids_lock, stream, closed, procs>>

\* `let pids = self.child_pids.lock().await;`
StopLock(s) ==
    /\ stops[s].pc = "lock"
    /\ pids_lock = 0
    /\ pids_lock' = s
    /\ stops' = [stops EXCEPT ![s].pc = "kill", ![s].idx = 1,
                              ![s].snapshot = child_pids]
    /\ UNCHANGED <<scenario, call, running, child_pids, runs, stream, closed, procs>>

\* Kill that signals nothing
Kill_Nothing(pid) == procs

\* `kill -INT pid`: the signal reaches the process when it is still alive
Kill(pid) ==
    [procs EXCEPT ![pid].sigs = IF procs[pid].state = "alive" THEN @ + 1 ELSE @]

\* StopKill that returns without giving the lock back
StopKill_KeepLock(s) ==
    /\ stops[s].pc = "kill"
    /\ IF stops[s].idx <= Len(child_pids)
       THEN /\ procs' = Kill(child_pids[stops[s].idx])
            /\ stops' = [stops EXCEPT ![s].idx = @ + 1,
                                      ![s].sent = Append(@, child_pids[stops[s].idx])]
       ELSE /\ stops' = [stops EXCEPT ![s].pc = "done"]
            /\ UNCHANGED procs
    /\ UNCHANGED <<scenario, call, running, child_pids, pids_lock, runs, stream, closed>>

\* StopKill that keeps the lock until the vector of pids is empty
StopKill_WaitForRun(s) ==
    /\ stops[s].pc = "kill"
    /\ IF stops[s].idx <= Len(child_pids)
       THEN /\ procs' = Kill(child_pids[stops[s].idx])
            /\ stops' = [stops EXCEPT ![s].idx = @ + 1,
                                      ![s].sent = Append(@, child_pids[stops[s].idx])]
            /\ UNCHANGED pids_lock
       ELSE /\ child_pids = <<>>
            /\ pids_lock' = 0
            /\ stops' = [stops EXCEPT ![s].pc = "done"]
            /\ UNCHANGED procs
    /\ UNCHANGED <<scenario, call, running, child_pids, runs, stream, closed>>

\* one turn of `for &pid in pids.iter() { Command::new("kill") .. }`, or the
\* end of the loop, where the guard is dropped and stop() returns
StopKill(s) ==
    /\ stops[s].pc = "kill"
    /\ IF stops[s].idx <= Len(child_pids)
       THEN /\ procs' = Kill(child_pids[stops[s].idx])
            /\ stops' = [stops EXCEPT ![s].idx = @ + 1,
                                      ![s].sent = Append(@, child_pids[stops[s].idx])]
            /\ UNCHANGED pids_lock
       ELSE /\ pids_lock' = 0
            /\ stops' = [stops EXCEPT ![s].pc = "done"]
            /\ UNCHANGED procs
    /\ UNCHANGED <<scenario, call, running, child_pids, runs, stream, closed>>

(***************************************************************************)
(* The child processes and the tasks draining their pipes.                 *)
(***************************************************************************)
\* the child prints a line on stdout
ProcWriteOut(p, line) ==
    /\ procs[p].state = "alive"
    /\ procs[p].written < scenario.lines
    /\ procs' = [procs EXCEPT ![p].out = Append(@, line), ![p].written = @ + 1,
                              ![p].wrote_out = Append(@, line)]
    /\ UNCHANGED <<scenario, call, running, child_pids, pids_lock, runs, stream, closed, stops>>

\* the child prints a line on stderr
ProcWriteErr(p, line) ==
    /\ procs[p].state = "alive"
    /\ procs[p].written < scenario.lines
    /\ procs' = [procs EXCEPT ![p].err = Append(@, line), ![p].written = @ + 1,
                              ![p].wrote_err = Append(@, line)]
    /\ UNCHANGED <<scenario, call, running, child_pids, pids_lock, runs, stream, closed, stops>>

\* the child exits, with status 0 or not (a signal's death is not success)
ProcExit(p, ok) ==
    /\ procs[p].state = "alive"
    /\ procs' = [procs EXCEPT ![p].state = "exited", ![p].ok = ok]
    /\ UNCHANGED <<scenario, call, running, child_pids, pids_lock, runs, stream, closed, stops>>

\* the events the stdout task sends for a line
StdoutEvents(name, line) ==
    IF ~TrimIsEmpty(line) THEN <<SourceProgress(name, line)>> ELSE <<>>

\* StderrEvents that looks for the informational messages first
StderrEvents_InfoFirst(name, line) ==
    IF TrimIsEmpty(line) THEN <<>>
    ELSE IF \/ Contains(line, "up to date")
            \/ Contains(line, "Nothing to do")
            \/ Contains(line, "info:")
    THEN <<SourceProgress(name, line)>>
    ELSE IF Contains(line, "password") THEN <<>>
    ELSE <<SourceError(name, line)>>

\* the events the stderr task sends for a line
StderrEvents(name, line) ==
    IF ~TrimIsEmpty(line) /\ ~Contains(line, "password")
    THEN IF \/ Contains(line, "up to date")
            \/ Contains(line, "Nothing to do")
            \/ Contains(line, "info:")
         THEN <<SourceProgress(name, line)>>
         ELSE <<SourceError(name, line)>>
    ELSE <<>>

SendAll(r, events) ==
    stream' = [stream EXCEPT ![r] = IF closed[r] THEN @ ELSE @ \o events]

\* DrainStdout that takes the newest line of the pipe
DrainStdout_Newest(p) ==
    /\ procs[p].drain
    /\ procs[p].out # <<>>
    /\ SendAll(procs[p].run,
               StdoutEvents(procs[p].name, procs[p].out[Len(procs[p].out)]))
    /\ procs' = [procs EXCEPT ![p].out = SubSeq(@, 1, Len(@) - 1)]
    /\ UNCHANGED <<scenario, call, running, child_pids, pids_lock, runs, closed, stops>>

\* one turn of the stdout task's `while let Some(Ok(line)) = lines.next().await`
DrainStdout(p) ==
    /\ procs[p].drain
    /\ procs[p].out # <<>>
    /\ SendAll(procs[p].run, StdoutEvents(procs[p].name, Head(procs[p].out)))
    /\ procs' = [procs EXCEPT ![p].out = Tail(@)]
    /\ UNCHANGED <<scenario, call, running, child_pids, pids_lock, runs, closed, stops>>

\* one turn of the stderr task's loop
DrainStderr(p) ==
    /\ procs[p].drain
    /\ procs[p].err # <<>>
    /\ SendAll(procs[p].run, StderrEvents(procs[p].name, Head(procs[p].err)))
    /\ procs' = [procs EXCEPT ![p].err = Tail(@)]
    /\ UNCHANGED <<scenario, call, running, child_pids, pids_lock, runs, closed, stops>>

(***************************************************************************)
(* The consumer (MainWindow::handle_updates): it receives until it has     *)
(* received Completed, breaks, and its Receiver is dropped.                *)
(***************************************************************************)
HasCompleted(q) == \E i \in 1..Len(q) : q[i].type = "Completed"

handle_updates(r) ==
    /\ ~closed[r]
    /\ HasCompleted(stream[r])
    /\ closed' = [closed EXCEPT ![r] = TRUE]
    /\ UNCHANGED <<scenario, call, running, child_pids, pids_lock, runs, stream, procs, stops>>

(***************************************************************************)
(* The specification.                                                      *)
(***************************************************************************)
\* the call of run_updates() that can begin now, if any
NextRun ==
    { r \in RunIds : /\ runs[r].pc = "idle"
                     /\ r <= scenario.runs
                     /\ CallerFree
                     /\ \A q \in RunIds : q < r => runs[q].pc # "idle" }

Next ==
    \/ \E r \in NextRun :
          \E sources \in SeqsUpTo(scenario.ids, scenario.sel[r]), dry_run \in scenario.dry :
             RunCall(r, sources, dry_run)
    \/ \E r \in RunIds : RunAccept(r)
    \/ \E r \in RunIds : LoopGuard(r)
    \/ \E r \in RunIds : LoopLookup(r)
    \/ \E r \in RunIds : RunCommand(r)
    \/ \E r \in RunIds : LoopPush(r)
    \/ \E r \in RunIds : LoopWait(r)
    \/ \E r \in RunIds : LoopSourceDone(r)
    \/ \E r \in RunIds : LoopFinish(r)
    \/ \E r \in RunIds : LoopCompleted(r)
    \/ \E s \in StopIds : StopCall(s)
    \/ \E s \in StopIds : StopStore(s)
    \/ \E s \in StopIds : StopLock(s)
    \/ \E s \in StopIds : StopKill(s)
    \/ \E p \in 1..Len(procs), line \in Lines : ProcWriteOut(p, line)
    \/ \E p \in 1..Len(procs), line \in Lines : ProcWriteErr(p, line)
    \/ \E p \in 1..Len(procs), ok \in BOOLEAN : ProcExit(p, ok)
    \/ \E p \in 1..Len(procs) : DrainStdout(p)
    \/ \E p \in 1..Len(procs) : DrainStderr(p)
    \/ \E r \in RunIds : handle_updates(r)

Spec == Init /\ [][Next]_vars

(***************************************************************************)
(* Scheduling.  The executor runs every spawned task and every future it   *)
(* has begun to poll: a task's next step, once possible, is taken.  The    *)
(* callers are free to make no call at all, so the calls themselves are    *)
(* not fair, but a call that has begun goes on.  That every child process  *)
(* exits is the hypothesis of the liveness claim.                          *)
(***************************************************************************)
\* the next step of the task of run r, or of the call that starts it
TaskStep(r) ==
    \/ RunAccept(r) \/ LoopGuard(r) \/ LoopLookup(r) \/ RunCommand(r)
    \/ LoopPush(r) \/ LoopWait(r) \/ LoopSourceDone(r) \/ LoopFinish(r)
    \/ LoopCompleted(r)

\* the next step of a stop() that has begun
StopStep(s) == StopStore(s) \/ StopLock(s) \/ StopKill(s)

\* some child process exits
ChildExits == \E p \in 1..Len(procs), ok \in BOOLEAN : ProcExit(p, ok)

Fairness ==
    /\ \A r \in RunIds : WF_vars(TaskStep(r))
    /\ \A s \in StopIds : WF_vars(StopStep(s))
    /\ WF_vars(ChildExits)

\* the scenarios explored for liveness: a stopped run followed by further
\* calls, repeated stop() calls with failing waits, and children that print
LiveScenarios ==
    { Scenario(MaxRuns, 1, SelFirst(1), 0, {"flatpak"}, {FALSE}, FALSE, FALSE),
      Scenario(1, MaxStops, SelAll(1), 0, {"flatpak"}, {FALSE}, FALSE, TRUE),
      Scenario(1, 0, SelAll(1), MaxLines, {"flatpak"}, {TRUE}, FALSE, FALSE) }

LiveInit == Init /\ scenario \in LiveScenarios

LiveSpec == LiveInit /\ [][Next]_vars /\ Fairness


(***************************************************************************)
(* The functions that only return a value: the two validators,             *)
(* detect_sources() and get_manager_info().  They are explored on their    *)
(* own, from the state of a new Updater, over the inputs below.            *)
(***************************************************************************)
\* n copies of s, one after the other
RECURSIVE Rep(_, _)
Rep(s, n) ==
    IF n = 0 THEN ""
    ELSE IF n % 2 = 0 THEN LET half == Rep(s, n \div 2) IN half \o half
    ELSE s \o Rep(s, n - 1)

\* descriptors handed to validate_manager_security: the catalog's, and
\* descriptors made by hand (as the tests make them), some under a name of
\* the catalog and some under a name the catalog does not hold
TestManagers ==
    init_managers \cup
    { PackageManager(name, <<name, "list">>, <<name, "update">>, FALSE, "")
        : name \in {"flatpak", "apt", "malicious", "APT", "apt ", "", "pacman"} }

\* tokens handed to validate_command_args
Tokens ==
    { "update", "-y", "--noconfirm",
      "a && b", "a || b", "a; b", "a " \o Backtick \o "b" \o Backtick, "a | b",
      "echo > /dev/sda", "echo >> /dev/sda", "echo >/dev/sda", "echo >>/dev/sda",
      "echo > /tmp/log",
      Rep("a", MAX_ARG_LEN - 1), Rep("a", MAX_ARG_LEN), Rep("a", MAX_ARG_LEN + 1),
      Rep("a", MAX_ARG_LEN) \o ";",
      "a; echo > /dev/sda", "echo > /dev/" \o Rep("a", MAX_ARG_LEN) }

system_managers == <<"paru", "apt", "dnf", "zypper", "apk">>

other_managers == <<"flatpak", "snap", "pipx", "npm", "rustup", "brew">>

\* the commands `which` is asked about
Commands == Range(system_managers) \cup Range(other_managers)

\* ids handed to get_manager_info
QueryIds == ManagerNames \cup {"unknown-id", "", "Flatpak"}

\* lines read from a child's pipe
TestLines ==
    { "", "   ", "\t", "Downloading update", "Nothing to do", "nothing to do",
      "Already up to date.", "info: checking", "error: failed",
      "[sudo] password for root:", "password cache is up to date", "Password:" }

\* the loop over system_managers, had it not had the `break`
FirstPresent_NoBreak(managers, present) ==
    SelectSeq(managers, LAMBDA m : m \in present)

\* the loop over system_managers: the first one present, and `break`
RECURSIVE FirstPresent(_, _)
FirstPresent(managers, present) ==
    IF managers = <<>> THEN <<>>
    ELSE IF Head(managers) \in present THEN <<Head(managers)>>
    ELSE FirstPresent(Tail(managers), present)

\* detect_sources, where command_exists(cmd) is cmd \in present (a `which`
\* that cannot be run counts as absent)
detect_sources(present) ==
    [ok |-> TRUE,
     value |-> FirstPresent(system_managers, present)
               \o SelectSeq(other_managers, LAMBDA m : m \in present)]

\* a lookup that falls back to an entry of the catalog
managers_get_OrDefault(name) ==
    IF name \in ManagerNames
    THEN [some |-> TRUE, value |-> get_manager_info(name)]
    ELSE [some |-> TRUE, value |-> get_manager_info("flatpak")]

\* self.managers.get(name), an Option
managers_get(name) ==
    IF name \in ManagerNames
    THEN [some |-> TRUE, value |-> get_manager_info(name)]
    ELSE [some |-> FALSE]

\* a call, its argument and what it returned
Returned(op, arg, result) == [op |-> op, arg |-> arg, result |-> result]

\* one call is explored in a behaviour
ValidateManager(manager) ==
    /\ call = NoCall
    /\ call' = Returned("validate_manager_security", manager,
                        validate_manager_security(manager))
    /\ UNCHANGED <<running, child_pids, pids_lock, runs, stream, closed, procs,
                   stops, scenario>>

ValidateArgs(args) ==
    /\ call = NoCall
    /\ call' = Returned("validate_command_args", args, validate_command_args(args))
    /\ UNCHANGED <<running, child_pids, pids_lock, runs, stream, closed, procs,
                   stops, scenario>>

DetectSources(present) ==
    /\ call = NoCall
    /\ call' = Returned("detect_sources", present, detect_sources(present))
    /\ UNCHANGED <<running, child_pids, pids_lock, runs, stream, closed, procs,
                   stops, scenario>>

GetManagerInfo(name) ==
    /\ call = NoCall
    /\ call' = Returned("get_manager_info", name, managers_get(name))
    /\ UNCHANGED <<running, child_pids, pids_lock, runs, stream, closed, procs,
                   stops, scenario>>

\* what the stdout task does with a line it has read
ClassifyStdout(name, line) ==
    /\ call = NoCall
    /\ call' = Returned("stdout_line", [name |-> name, line |-> line],
                        StdoutEvents(name, line))
    /\ UNCHANGED <<running, child_pids, pids_lock, runs, stream, closed, procs,
                   stops, scenario>>

\* what the stderr task does with a line it has read
ClassifyStderr(name, line) ==
    /\ call = NoCall
    /\ call' = Returned("stderr_line", [name |-> name, line |-> line],
                        StderrEvents(name, line))
    /\ UNCHANGED <<running, child_pids, pids_lock, runs, stream, closed, procs,
                   stops, scenario>>

QueryNext ==
    \/ \E manager \in TestManagers : ValidateManager(manager)
    \/ \E args \in SeqsUpTo(Tokens, MaxArgs) : ValidateArgs(args)
    \/ \E present \in SUBSET Commands : DetectSources(present)
    \/ \E name \in QueryIds : GetManagerInfo(name)
    \/ \E name \in ManagerNames, line \in TestLines : ClassifyStdout(name, line)
    \/ \E name \in ManagerNames, line \in TestLines : ClassifyStderr(name, line)

\* no call of run_updates() or stop() is made
NoCalls == Scenario(0, 0, SelAll(0), 0, {}, {}, FALSE, FALSE)

QueryInit == NewUpdater /\ scenario = NoCalls

QuerySpec == QueryInit /\ [][QueryNext]_vars

(***************************************************************************)
(* Vocabulary of the properties.                                           *)
(***************************************************************************)
RECURSIVE Count(_, _)
Count(q, type) ==
    IF q = <<>> THEN 0
    ELSE (IF Head(q).type = type THEN 1 ELSE 0) + Count(Tail(q), type)

\* the run has emitted Started and has not emitted Completed
Active(r) == Count(stream[r], "Started") > 0 /\ Count(stream[r], "Completed") = 0


(***************************************************************************)
(* C1: for every interleaving of run() and stop() calls on one Updater, at *)
(* most one run loop is between emitting its Started and emitting its      *)
(* Completed.                                                              *)
(***************************************************************************)
C1_AtMostOneActiveRun == Cardinality({ r \in RunIds : Active(r) }) <= 1

C3_RejectedRunChangesNothing ==
    [][\A r \in RunIds :
         /\ (runs[r].pc = "idle" /\ runs'[r].pc # "idle" /\ is_running)
               => /\ runs' = [runs EXCEPT ![r].pc = "rejected"]
                  /\ UNCHANGED <<running, child_pids, pids_lock, stream, closed,
                                 procs, stops>>
         /\ runs[r].pc = "rejected"
               => /\ runs'[r] = runs[r]
                  /\ stream'[r] = <<>>]_vars

\* a call has been rejected while another run waits for its child process
C3_Witness ==
    \E r, q \in RunIds :
        runs[r].pc = "rejected" /\ runs[q].pc = "wait" /\ child_pids # <<>>

(***************************************************************************)
(* C4: every accepted run() emits Completed exactly once on its event      *)
(* stream, whether the source sequence is exhausted or terminated early by *)
(* stop(), and Started is the first event of that stream.  (That the task  *)
(* does reach its end is the liveness claim C24.)                          *)
(***************************************************************************)
C4_CompletedOnceStartedFirst ==
    \A r \in RunIds :
        /\ runs[r].pc \in {"idle", "rejected", "accepted"} => stream[r] = <<>>
        /\ InProgress(r) \/ runs[r].pc = "done"
              => /\ stream[r] # <<>>
                 /\ stream[r][1] = Started
                 /\ Count(stream[r], "Started") = 1
        /\ InProgress(r) => Count(stream[r], "Completed") = 0
        /\ runs[r].pc = "done" => Count(stream[r], "Completed") = 1

\* a run that stop() ended before its last source has sent its Completed
C4_Witness ==
    \E r \in RunIds :
        /\ runs[r].pc = "done"
        /\ runs[r].stopped
        /\ runs[r].idx <= Len(runs[r].sources)
        /\ Count(stream[r], "Completed") = 1

(***************************************************************************)
(* C5: Completed is the last event of a run's stream: no SourceProgress,   *)
(* SourceError, SourceCompleted or Error event of that run is placed on    *)
(* the stream after its Completed event.                                   *)
(***************************************************************************)
C5_CompletedIsLast ==
    \A r \in RunIds :
        \A i \in 1..Len(stream[r]) :
            stream[r][i].type = "Completed" => i = Len(stream[r])


(***************************************************************************)
(* C6: once stop() has set running to false during a run, that run emits   *)
(* no further SourceStarted event and spawns no further process, whatever  *)
(* calls are made on the Updater afterwards.                               *)
(***************************************************************************)
C6_NoStartAfterStop ==
    [][\A r \in RunIds :
         runs[r].stopped
            => /\ Count(stream'[r], "SourceStarted") = Count(stream[r], "SourceStarted")
               /\ \A p \in (Len(procs) + 1)..Len(procs') : procs'[p].run # r]_vars

(***************************************************************************)
(* C7: for a selection of two registered sources, if stop() takes effect   *)
(* after source 1's SourceStarted and before source 2 would start, the     *)
(* run's event sequence contains SourceStarted and SourceCompleted for     *)
(* source 1 only, no event for source 2, and ends with Completed(false).   *)
(***************************************************************************)
C7_StopBetweenSources ==
    \A r \in RunIds :
        (/\ runs[r].pc = "done"
         /\ Len(runs[r].sources) = 2
         /\ Range(runs[r].sources) \subseteq ManagerNames
         /\ runs[r].sources[1] # runs[r].sources[2]
         /\ runs[r].stopped_in_first)
           => /\ Count(stream[r], "SourceStarted") = 1
              /\ Count(stream[r], "SourceCompleted") = 1
              /\ \A i \in 1..Len(stream[r]) : stream[r][i].src # runs[r].sources[2]
              /\ stream[r][Len(stream[r])] = Completed(FALSE)

(***************************************************************************)
(* C8: whenever stop() is called while running is true and the current     *)
(* source's child process has been spawned and has not yet exited, that    *)
(* process's handle is in child_pids when stop() iterates it, so the       *)
(* process is sent the interrupt signal.                                   *)
(***************************************************************************)
C8_StopSignalsLiveChild ==
    \A s \in StopIds :
        stops[s].pc = "done" /\ stops[s].was_running
           => \A p \in stops[s].alive_at_call :
                 procs[p].state = "alive" => p \in Range(stops[s].sent)

(***************************************************************************)
(* C9: stop() called while running is true sets running to false and sends *)
(* one interrupt signal to each handle present in child_pids at the time   *)
(* it iterates; stop() itself neither inserts into nor removes from        *)
(* child_pids.                                                             *)
(***************************************************************************)
C9_Inv ==
    \A s \in StopIds :
        /\ stops[s].pc = "kill"
              => /\ pids_lock = s
                 /\ child_pids = stops[s].snapshot
                 /\ stops[s].sent = SubSeq(stops[s].snapshot, 1, stops[s].idx - 1)
        /\ stops[s].pc = "done" /\ stops[s].was_running
              => stops[s].sent = stops[s].snapshot

C9_Step ==
    \A s \in StopIds :
        /\ stops'[s] # stops[s] => child_pids' = child_pids
        /\ stops[s].pc = "store" /\ stops'[s].pc # "store" => running' = FALSE
        /\ stops[s].pc = "kill" /\ stops'[s].idx = stops[s].idx + 1
              => LET pid == child_pids[stops[s].idx] IN
                 procs' = [procs EXCEPT ![pid].sigs =
                             IF procs[pid].state = "alive" THEN @ + 1 ELSE @]

C9_StopSignalsEveryHandle == []C9_Inv /\ [][C9_Step]_vars

\* a stop() has returned after signalling a live child
C9_Witness ==
    \E s \in StopIds :
        /\ stops[s].pc = "done"
        /\ stops[s].was_running
        /\ stops[s].sent # <<>>
        /\ procs[stops[s].sent[1]].sigs > 0

(***************************************************************************)
(* C10: stop() called while running is false returns success, sends no     *)
(* signal to any process, and leaves the running flag and child_pids       *)
(* unchanged.                                                              *)
(***************************************************************************)
C10_Step ==
    \A s \in StopIds :
        /\ stops[s].pc = "idle" /\ stops'[s] # stops[s] /\ ~is_running
              => /\ stops' = [stops EXCEPT ![s].pc = "done"]
                 /\ UNCHANGED <<running, child_pids, pids_lock, runs, stream,
                                closed, procs>>
        /\ stops[s].pc = "done" => stops'[s] = stops[s]

C10_IdleStopIsNoOp ==
    /\ [](\A s \in StopIds :
            stops[s].pc = "done" /\ ~stops[s].was_running => stops[s].sent = <<>>)
    /\ [][C10_Step]_vars

\* a stop() found the flag false and returned while a live child's pid was
\* in child_pids, and that child has not been signalled
C10_Witness ==
    \E s \in StopIds :
        /\ stops[s].pc = "done"
        /\ ~stops[s].was_running
        /\ \E p \in Range(child_pids) : procs[p].state = "alive" /\ procs[p].sigs = 0

(***************************************************************************)
(* C11: stop() is idempotent: a second stop() issued after a first stop()  *)
(* has taken effect, with no run_updates() accepted in between, returns    *)
(* success, sends no signal and changes no state, even while the stopped   *)
(* run's in-flight process is still alive.                                 *)
(***************************************************************************)
C11_Step ==
    \A s1, s2 \in StopIds :
        (/\ s1 # s2
         /\ stops[s1].pc \in {"lock", "kill", "done"}
         /\ stops[s1].was_running
         /\ AcceptedRuns = stops[s1].runs_at_store
         /\ stops[s2].pc = "idle"
         /\ stops'[s2] # stops[s2])
           => /\ stops' = [stops EXCEPT ![s2].pc = "done"]
              /\ UNCHANGED <<running, child_pids, pids_lock, runs, stream,
                             closed, procs>>

C11_StopIsIdempotent == [][C11_Step]_vars

\* a second stop() has returned without a signal while the child that the
\* first stop() signalled is still alive
C11_Witness ==
    \E s1, s2 \in StopIds :
        /\ stops[s1].pc = "done" /\ stops[s1].was_running
        /\ stops[s2].pc = "done" /\ ~stops[s2].was_running
        /\ AcceptedRuns = stops[s1].runs_at_store
        /\ stops[s1].sent # <<>>
        /\ procs[stops[s1].sent[1]].state = "alive"
        /\ procs[stops[s1].sent[1]].sigs = 1

(***************************************************************************)
(* C12: stop() emits no event itself; when stop() arrives while source k   *)
(* is executing, the run loop still emits SourceCompleted(k, result) for   *)
(* the in-flight source, and only then Completed: in the stream of a run   *)
(* that has sent Completed, every SourceStarted(k) is followed by a        *)
(* SourceCompleted(k, _) that precedes Completed, and the result it        *)
(* carries for a spawned child is that child's exit status (failure when   *)
(* the wait for the child failed).                                         *)
(***************************************************************************)
C12_Inv ==
    \A r \in RunIds :
        runs[r].pc = "done"
           => /\ \A i \in 1..Len(stream[r]) :
                    stream[r][i].type = "SourceStarted"
                       => \E j \in (i + 1)..Len(stream[r]) :
                             /\ stream[r][j].type = "SourceCompleted"
                             /\ stream[r][j].src = stream[r][i].src
                             /\ \E k \in (j + 1)..Len(stream[r]) :
                                   stream[r][k].type = "Completed"
              /\ \A p \in 1..Len(procs) :
                    procs[p].run = r
                       => SourceCompleted(procs[p].name,
                                          procs[p].waited = "ok" /\ procs[p].ok)
                             \in Range(stream[r])

C12_Step == \A s \in StopIds : stops'[s] # stops[s] => stream' = stream

C12_StopLeavesReportToLoop == []C12_Inv /\ [][C12_Step]_vars

\* stop() was called while a source's child was alive; that run has since
\* reported the source and then sent Completed
C12_Witness ==
    \E s \in StopIds :
        /\ stops[s].pc = "done"
        /\ \E p \in stops[s].alive_at_call :
              LET r == procs[p].run IN
              /\ runs[r].pc = "done"
              /\ runs[r].stopped
              /\ \E j \in 1..Len(stream[r]) :
                    /\ stream[r][j] = SourceCompleted(procs[p].name, procs[p].ok)
                    /\ j < Len(stream[r])

(***************************************************************************)
(* C13: within one run, SourceCompleted(N) appears in the stream before    *)
(* SourceStarted(N+1) for consecutive started sources N and N+1, and the   *)
(* sources are started in the caller-supplied order: the SourceStarted and *)
(* SourceCompleted events of a stream alternate, each SourceCompleted      *)
(* names the source started before it, and the sources started are, in     *)
(* order, the first registered ids of the selection.                       *)
(***************************************************************************)
SourceEvents(r) ==
    SelectSeq(stream[r], LAMBDA e : e.type \in {"SourceStarted", "SourceCompleted"})

Registered(sources) == SelectSeq(sources, LAMBDA id : id \in ManagerNames)

C13_SourcesInOrder ==
    \A r \in RunIds :
        LET se == SourceEvents(r)
            reg == Registered(runs[r].sources)
        IN  /\ \A i \in 1..Len(se) :
                  IF i % 2 = 1
                  THEN /\ se[i].type = "SourceStarted"
                       /\ (i + 1) \div 2 <= Len(reg)
                       /\ se[i].src = reg[(i + 1) \div 2]
                  ELSE /\ se[i].type = "SourceCompleted"
                       /\ se[i].src = se[i - 1].src

\* a run has started and reported two different sources
C13_Witness ==
    \E r \in RunIds :
        /\ Len(SourceEvents(r)) = 4
        /\ SourceEvents(r)[1].src # SourceEvents(r)[3].src

(***************************************************************************)
(* C14: no two sources execute concurrently on one Updater: in every       *)
(* reachable state child_pids holds at most one handle and at most one     *)
(* source, over all runs, is between its SourceStarted and its             *)
(* SourceCompleted.                                                        *)
(***************************************************************************)
SourcesInFlight ==
    { r \in RunIds :
        Count(stream[r], "SourceStarted") > Count(stream[r], "SourceCompleted") }

C14_OneSourceAtATime ==
    /\ Len(child_pids) <= 1
    /\ Cardinality(SourcesInFlight) <= 1

(***************************************************************************)
(* C15: every SourceProgress and SourceError event carrying source id S    *)
(* appears in the stream after SourceStarted(S) and before the             *)
(* SourceCompleted(S) that answers it: where such an event stands, more    *)
(* SourceStarted(S) than SourceCompleted(S) events precede it.             *)
(***************************************************************************)
RECURSIVE CountOf(_, _, _)
CountOf(q, type, src) ==
    IF q = <<>> THEN 0
    ELSE (IF Head(q).type = type /\ Head(q).src = src THEN 1 ELSE 0)
         + CountOf(Tail(q), type, src)

C15_OutputWithinSource ==
    \A r \in RunIds :
        \A i \in 1..Len(stream[r]) :
            stream[r][i].type \in {"SourceProgress", "SourceError"}
               => LET before == SubSeq(stream[r], 1, i - 1)
                      src == stream[r][i].src
                  IN  CountOf(before, "SourceStarted", src)
                         > CountOf(before, "SourceCompleted", src)

(***************************************************************************)
(* C16: for every started source, run_command is handed the descriptor's   *)
(* check-command tokens when dry_run is true and its update-command tokens *)
(* when dry_run is false; the other command's tokens are never executed in *)
(* that run.  (A process executes tokens when they are its command line,   *)
(* or the `sh -c` line of the privilege wrapper.)                          *)
(***************************************************************************)
Executes(argv, cmd) ==
    \/ argv = cmd
    \/ argv = <<"pkexec", "--user", "root", "sh", "-c", Join(cmd, " ")>>

C16_DryRunChoosesCommand ==
    \A p \in 1..Len(procs) :
        LET manager == get_manager_info(procs[p].name)
            dry_run == runs[procs[p].run].dry_run
        IN  /\ dry_run => /\ Executes(procs[p].argv, manager.check_cmd)
                          /\ ~Executes(procs[p].argv, manager.update_cmd)
            /\ ~dry_run => /\ Executes(procs[p].argv, manager.update_cmd)
                           /\ ~Executes(procs[p].argv, manager.check_cmd)

\* a dry run has spawned the check command of a source whose update command
\* needs the privilege wrapper
C16_Witness ==
    \E p \in 1..Len(procs) :
        /\ runs[procs[p].run].dry_run
        /\ get_manager_info(procs[p].name).needs_sudo
        /\ procs[p].argv = get_manager_info(procs[p].name).check_cmd

(***************************************************************************)
(* C17: the boolean carried by a run's Completed event is the logical AND  *)
(* of the success booleans of all the SourceCompleted events of that run   *)
(* (true when there are none).                                             *)
(***************************************************************************)
AllSourcesOk(q) ==
    \A j \in 1..Len(q) : q[j].type = "SourceCompleted" => q[j].ok

C17_CompletedIsAndOfSources ==
    \A r \in RunIds :
        \A i \in 1..Len(stream[r]) :
            stream[r][i].type = "Completed"
               => stream[r][i].ok = AllSourcesOk(stream[r])

\* a run whose first source failed and whose second source succeeded has
\* sent Completed(false)
C17_Witness ==
    \E r \in RunIds :
        /\ Completed(FALSE) \in Range(stream[r])
        /\ Len(SourceEvents(r)) = 4
        /\ ~SourceEvents(r)[2].ok
        /\ SourceEvents(r)[4].ok

(***************************************************************************)
(* C18: a run whose selection contains no id of the registry (the empty    *)
(* selection, or unknown ids only) produces exactly the event sequence     *)
(* Started, Completed(true): unknown ids are skipped without any           *)
(* SourceStarted, SourceError or Error event and contribute no failure.    *)
(***************************************************************************)
C18_UnknownIdsAreSkipped ==
    \A r \in RunIds :
        Registered(runs[r].sources) = <<>>
           => /\ InProgress(r) => stream[r] = <<Started>>
              /\ runs[r].pc = "done" => stream[r] = <<Started, Completed(TRUE)>>
              /\ \A p \in 1..Len(procs) : procs[p].run # r

\* a run given unknown ids only has finished
C18_Witness ==
    \E r \in RunIds :
        /\ runs[r].pc = "done"
        /\ runs[r].sources # <<>>
        /\ Registered(runs[r].sources) = <<>>
        /\ stream[r] = <<Started, Completed(TRUE)>>

(***************************************************************************)
(* C19: a per-source failure (security violation, spawn failure or         *)
(* non-zero exit) never aborts the run: if stop() is not called, every     *)
(* later registered source of the selection is still started and reported, *)
(* and only the overall result becomes false.                              *)
(***************************************************************************)
StopNeverCalled == \A s \in StopIds : stops[s].pc = "idle"

C19_FailureDoesNotAbort ==
    \A r \in RunIds :
        (/\ runs[r].pc = "done"
         /\ StopNeverCalled
         /\ ~AllSourcesOk(stream[r]))
           => /\ Len(SourceEvents(r)) = 2 * Len(Registered(runs[r].sources))
              /\ Completed(FALSE) \in Range(stream[r])

(***************************************************************************)
(* C20: if the security validator rejects the descriptor or the command    *)
(* tokens, run_command emits exactly one SourceError for that source,      *)
(* carrying the violation message, returns failure, spawns no process and  *)
(* leaves child_pids unchanged.                                            *)
(***************************************************************************)
\* the validator's verdict on what a run would execute for a manager
Verdict(manager, dry_run) ==
    IF ~validate_manager_security(manager).ok
    THEN validate_manager_security(manager)
    ELSE validate_command_args(CommandOf(manager, dry_run))

\* the verdicts on the whole catalog
Verdicts ==
    [id \in ManagerNames |->
        [dry_run \in BOOLEAN |-> Verdict(get_manager_info(id), dry_run)]]

C20_Inv ==
    \A r \in RunIds :
        /\ \A p \in 1..Len(procs) :
              procs[p].run = r => Verdicts[procs[p].name][runs[r].dry_run].ok
        /\ \A id \in Range(Registered(runs[r].sources)) :
              ~Verdicts[id][runs[r].dry_run].ok
                 => /\ CountOf(stream[r], "SourceError", id)
                          <= CountOf(stream[r], "SourceStarted", id)
                    /\ runs[r].pc = "done"
                          => CountOf(stream[r], "SourceError", id)
                                = CountOf(stream[r], "SourceStarted", id)

C20_Step ==
    \A r \in RunIds :
        (runs[r].pc = "command" /\ runs'[r].pc # "command")
           => LET manager == get_manager_info(runs[r].sources[runs[r].idx])
                  verdict == Verdicts[manager.name][runs[r].dry_run]
              IN  ~verdict.ok
                     => /\ stream'[r] = Append(stream[r],
                                               SourceError(manager.name, verdict.err))
                        /\ runs'[r].pc = "srcdone"
                        /\ ~runs'[r].result
                        /\ UNCHANGED <<procs, child_pids>>

C20_RejectedCommandIsNotSpawned == []C20_Inv /\ [][C20_Step]_vars

\* a run has had a command rejected: the violation is on its stream, the
\* source's result is failure and the run has no process
C20_Witness ==
    \E r \in RunIds :
        /\ runs[r].pc = "srcdone"
        /\ ~runs[r].result
        /\ ~Verdicts[runs[r].sources[runs[r].idx]][runs[r].dry_run].ok
        /\ stream[r][Len(stream[r])].type = "SourceError"
        /\ Contains(stream[r][Len(stream[r])].text, "Command injection patterns not allowed")
        /\ \A p \in 1..Len(procs) : procs[p].run # r

(***************************************************************************)
(* C21: if spawning the process fails, run_command emits a generic Error   *)
(* event and returns failure for that source, so that                      *)
(* SourceCompleted(id, false) is the task's next event; it does not retry, *)
(* and child_pids gets no handle for that source.                          *)
(***************************************************************************)
C21_Step ==
    \A r \in RunIds :
        LET id == runs[r].sources[runs[r].idx] IN
        \* the step of run_command that emits the Error event
        /\ (/\ runs[r].pc = "command"
            /\ Len(stream'[r]) = Len(stream[r]) + 1
            /\ stream'[r][Len(stream'[r])].type = "Error")
              => /\ stream'[r] = Append(stream[r],
                       Error("Failed to run " \o id \o ": " \o SpawnError))
                 /\ runs'[r].pc = "srcdone"
                 /\ ~runs'[r].result
                 /\ UNCHANGED <<procs, child_pids>>
        \* the task's step after a failed source
        /\ (runs[r].pc = "srcdone" /\ runs'[r].pc # "srcdone")
              => /\ stream'[r] = Append(stream[r], SourceCompleted(id, runs[r].result))
                 /\ runs'[r].idx = runs[r].idx + 1
                 /\ UNCHANGED <<procs, child_pids>>

C21_SpawnFailureIsLocal == [][C21_Step]_vars

\* a spawn has failed and the source has been reported as failed: the Error
\* event is followed by SourceCompleted(id, false); the run has no process
C21_Witness ==
    \E r \in RunIds :
        /\ Len(stream[r]) >= 2
        /\ stream[r][Len(stream[r]) - 1].type = "Error"
        /\ stream[r][Len(stream[r])] = SourceCompleted(runs[r].sources[1], FALSE)
        /\ \A p \in 1..Len(procs) : procs[p].run # r
        /\ child_pids = <<>>

(***************************************************************************)
(* C22: every handle that a source's run_command call puts into child_pids *)
(* is removed before that call returns, on every exit path (zero exit,     *)
(* non-zero exit, signal, failed wait): a handle in child_pids belongs to  *)
(* a run that is inside the run_command call that spawned it, so when a    *)
(* run emits Completed child_pids holds no handle of that run.             *)
(***************************************************************************)
C22_HandleRemovedOnReturn ==
    \A p \in Range(child_pids) :
        /\ runs[procs[p].run].pc = "wait"
        /\ runs[procs[p].run].pid = p
        /\ procs[p].waited = "no"

\* a run has sent Completed after the wait for its child failed: the child
\* is still alive and its handle is gone
C22_Witness ==
    \E p \in 1..Len(procs) :
        /\ procs[p].waited = "err"
        /\ procs[p].state = "alive"
        /\ runs[procs[p].run].pc = "done"
        /\ p \notin Range(child_pids)

(***************************************************************************)
(* C23: in every reachable state every handle in child_pids belongs to a   *)
(* child process that is still alive: there is no state in which a process *)
(* has exited while its handle is still in child_pids, and stop() never    *)
(* signals a handle whose process has exited.                              *)
(***************************************************************************)
C23_Inv == \A p \in Range(child_pids) : procs[p].state = "alive"

C23_Step ==
    \A s \in StopIds :
        stops[s].pc = "kill" /\ stops'[s].idx = stops[s].idx + 1
           => procs[child_pids[stops[s].idx]].state = "alive"

C23_NoStaleHandle == []C23_Inv /\ [][C23_Step]_vars

(***************************************************************************)
(* C24: under fair scheduling, if every spawned child process eventually   *)
(* exits, then every accepted run eventually emits Completed and the       *)
(* running flag eventually becomes false, whether or not stop() is called  *)
(* during the run.                                                         *)
(***************************************************************************)
C24_RunsComplete ==
    /\ \A r \in RunIds :
          (runs[r].pc = "accepted")
             ~> (runs[r].pc = "done" /\ Count(stream[r], "Completed") = 1)
    /\ running ~> ~running

\* a run that stop() interrupted has emitted Completed; its child has
\* exited and the flag is false
C24_Witness ==
    \E r \in RunIds :
        /\ runs[r].pc = "done"
        /\ runs[r].stopped
        /\ Count(stream[r], "Completed") = 1
        /\ runs[r].pid # 0
        /\ procs[runs[r].pid].state = "exited"
        /\ ~running

(***************************************************************************)
(* The kinds of error of the two validators, told by their messages.       *)
(***************************************************************************)
StartsWith(s, prefix) ==
    Len(s) >= Len(prefix) /\ SubSeq(s, 1, Len(prefix)) = prefix

UnauthorizedManager(res) ==
    ~res.ok /\ StartsWith(res.err, "Unauthorized package manager: ")

InjectionPattern(res) ==
    ~res.ok /\ StartsWith(res.err, "Invalid argument pattern detected: ")

DangerousRedirect(res) ==
    ~res.ok /\ StartsWith(res.err, "Dangerous file redirection detected: ")

ArgumentTooLong(res) ==
    ~res.ok /\ StartsWith(res.err, "Argument too long")

(***************************************************************************)
(* C25: validate_manager_security succeeds for a descriptor exactly when   *)
(* its name is in ALLOWED_MANAGERS and fails with the "Unauthorized        *)
(* package manager" error for every other name, whether or not the         *)
(* descriptor is one of the catalog.                                       *)
(***************************************************************************)
C25_AllowListDecides ==
    call.op = "validate_manager_security"
       => /\ call.result.ok <=> call.arg.name \in ALLOWED_MANAGERS
          /\ ~call.result.ok => UnauthorizedManager(call.result)

\* a descriptor that is not the catalog's, under an allowed name, is accepted
C25_Witness ==
    /\ call.op = "validate_manager_security"
    /\ call.arg \notin init_managers
    /\ call.arg.name \in ALLOWED_MANAGERS
    /\ call.result.ok

(***************************************************************************)
(* What a token is, read as a piece of a shell command line.               *)
(***************************************************************************)
\* the token chains or substitutes commands: && || ; backtick or a pipe
ChainsCommands(token) ==
    \/ Contains(token, "&&") \/ Contains(token, "||") \/ Contains(token, ";")
    \/ Contains(token, Backtick) \/ Contains(token, "|")

\* the token redirects output (> or >>) into a path under /dev/, with or
\* without a space before the path
RedirectsToDev(token) ==
    Contains(token, ">/dev/") \/ Contains(token, "> /dev/")

TooLong(token) == Len(token) > 1000

OrdinaryToken(token) ==
    ~ChainsCommands(token) /\ ~RedirectsToDev(token) /\ ~TooLong(token)

\* the tokens before the i-th are ordinary
OrdinaryBefore(args, i) == \A j \in 1..(i - 1) : OrdinaryToken(args[j])

(***************************************************************************)
(* C26: validate_command_args fails for every vector in which some token   *)
(* contains &&, ||, ;, a backtick or a single pipe |, with the "Invalid    *)
(* argument pattern" error when that token is the first that is not        *)
(* ordinary; and it succeeds for every vector of ordinary tokens.          *)
(***************************************************************************)
C26_InjectionRejected ==
    call.op = "validate_command_args"
       => /\ (\E i \in DOMAIN call.arg : ChainsCommands(call.arg[i]))
                => ~call.result.ok
          /\ \A i \in DOMAIN call.arg :
                ChainsCommands(call.arg[i]) /\ OrdinaryBefore(call.arg, i)
                   => InjectionPattern(call.result)
          /\ (\A i \in DOMAIN call.arg : OrdinaryToken(call.arg[i]))
                => call.result.ok

(***************************************************************************)
(* C27: validate_command_args fails for every vector with a token longer   *)
(* than 1000, with the "Argument too long" error (which gives the length)  *)
(* when that token is the first that is not ordinary and holds no other    *)
(* forbidden pattern; and it never fails on length when no token is longer *)
(* than 1000: a token of length 1000 is accepted, one of 1001 is rejected. *)
(***************************************************************************)
C27_LengthBoundary ==
    call.op = "validate_command_args"
       => /\ (\E i \in DOMAIN call.arg : TooLong(call.arg[i]))
                => ~call.result.ok
          /\ \A i \in DOMAIN call.arg :
                /\ TooLong(call.arg[i]) /\ OrdinaryBefore(call.arg, i)
                /\ ~ChainsCommands(call.arg[i]) /\ ~RedirectsToDev(call.arg[i])
                => /\ ArgumentTooLong(call.result)
                   /\ call.result.err =
                         "Argument too long (potential buffer overflow): "
                         \o ToString(Len(call.arg[i])) \o " characters"
          /\ ArgumentTooLong(call.result)
                => \E i \in DOMAIN call.arg : TooLong(call.arg[i])
          /\ \A i \in DOMAIN call.arg :
                Len(call.arg[i]) = 1001 => ~call.result.ok

\* a vector with a token of exactly 1000 characters is accepted
C27_Witness ==
    /\ call.op = "validate_command_args"
    /\ \E i \in DOMAIN call.arg : Len(call.arg[i]) = 1000
    /\ call.result.ok

(***************************************************************************)
(* C28: validate_command_args fails with the "Dangerous file redirection"  *)
(* error for every vector whose first token that is not ordinary redirects *)
(* output (> or >>) into a path under /dev/, whether or not a space stands *)
(* between the operator and the path.                                      *)
(***************************************************************************)
C28_RedirectRejected ==
    call.op = "validate_command_args"
       => \A i \in DOMAIN call.arg :
             /\ RedirectsToDev(call.arg[i]) /\ OrdinaryBefore(call.arg, i)
             /\ ~ChainsCommands(call.arg[i])
             => DangerousRedirect(call.result)

(***************************************************************************)
(* C29: for every set of commands present on the host, detect_sources      *)
(* returns Ok with at most one system manager, the first present one in    *)
(* the order paru, apt, dnf, zypper, apk, at the head of the sequence,     *)
(* followed by every present other manager in the fixed order; nothing     *)
(* absent is returned, and with nothing present the result is Ok with the  *)
(* empty sequence.                                                         *)
(***************************************************************************)
SystemPriority == <<"paru", "apt", "dnf", "zypper", "apk">>

IndexOf(seq, x) == CHOOSE i \in DOMAIN seq : seq[i] = x

C29_DetectOrder ==
    call.op = "detect_sources"
       => LET present == call.arg
              found == call.result.value
              systems == Range(SystemPriority)
              others == Range(other_managers)
          IN  /\ call.result.ok
              /\ Range(found) \subseteq present
              /\ Cardinality(Range(found)) = Len(found)
              /\ Cardinality(Range(found) \cap systems) <= 1
              /\ \A i \in DOMAIN SystemPriority :
                    /\ SystemPriority[i] \in present
                    /\ \A j \in 1..(i - 1) : SystemPriority[j] \notin present
                    => Len(found) >= 1 /\ found[1] = SystemPriority[i]
              /\ \A i \in DOMAIN found : found[i] \in systems => i = 1
              /\ Range(found) \cap others = present \cap others
              /\ \A i, j \in DOMAIN found :
                    i < j /\ found[i] \in others /\ found[j] \in others
                    => IndexOf(other_managers, found[i])
                          < IndexOf(other_managers, found[j])
              /\ present = {} => found = <<>>

\* two system managers and two other managers are present: the first system
\* manager and both others are returned
C29_Witness ==
    /\ call.op = "detect_sources"
    /\ {"apt", "dnf", "brew", "flatpak"} \subseteq call.arg
    /\ "paru" \notin call.arg
    /\ Len(call.result.value) >= 3
    /\ call.result.value[1] = "apt"

(***************************************************************************)
(* C30: get_manager_info(name) returns the descriptor whose name is the    *)
(* requested one for every name of the catalog and None for every other    *)
(* name, and the call leaves the flag, the child pids, the runs, their     *)
(* events and the child processes as they were.                            *)
(***************************************************************************)
\* the names under which init_managers registers a descriptor
CatalogIds ==
    {"paru", "apt", "dnf", "zypper", "apk",
     "flatpak", "snap", "pipx", "npm", "rustup", "brew"}

C30_Inv ==
    call.op = "get_manager_info"
       => IF call.arg \in CatalogIds
          THEN call.result.some /\ call.result.value.name = call.arg
          ELSE ~call.result.some

C30_Step ==
    call'.op = "get_manager_info" /\ call.op # "get_manager_info"
       => UNCHANGED <<running, child_pids, pids_lock, runs, stream, closed,
                      procs, stops>>

C30_LookupIsPure == []C30_Inv /\ [][C30_Step]_vars

\* flatpak is looked up and its descriptor is returned
C30_Witness ==
    /\ call.op = "get_manager_info"
    /\ call.arg = "flatpak"
    /\ call.result.some
    /\ call.result.value.name = "flatpak"
    /\ call.result.value.update_cmd = <<"flatpak", "update", "-y">>

(***************************************************************************)
(* C31: once a run has sent Completed (after success, failure or a stop)   *)
(* and no other call is being served, the next call of run_updates() is    *)
(* accepted, not rejected with "Updates already running", and it sends     *)
(* Started as the first event of a new channel.                            *)
(***************************************************************************)
C31_Step ==
    \A r \in RunIds :
        /\ runs[r].pc = "idle" /\ runs'[r].pc # "idle" /\ AfterCompleted(r)
              => runs'[r].pc = "accepted"
        /\ runs[r].pc = "accepted" /\ runs'[r].pc # "accepted"
              => stream[r] = <<>> /\ stream'[r] = <<Started>>

C31_NextRunAccepted == [][C31_Step]_vars

\* a run that stop() interrupted has sent Completed, and the call made after
\* it has been accepted and has sent Started
C31_Witness ==
    \E q, r \in RunIds :
        /\ runs[q].pc = "done" /\ runs[q].stopped
        /\ runs[r].after_completed
        /\ runs[r].pc = "guard"
        /\ stream[r] = <<Started>>

(***************************************************************************)
(* C32: a stdout line that is not blank yields SourceProgress; a stderr    *)
(* line holding the credential-prompt marker yields no event; a stderr     *)
(* line that is not blank and holds an informational marker yields         *)
(* SourceProgress; every other stderr line that is not blank yields        *)
(* SourceError; a line that is empty or all whitespace yields no event.    *)
(***************************************************************************)
Blank(line) == \A i \in 1..Len(line) : SubSeq(line, i, i) \in {" ", "\t", "\r", "\n"}

CredentialPrompt(line) == Contains(line, "password")

Informational(line) ==
    Contains(line, "up to date") \/ Contains(line, "Nothing to do")
       \/ Contains(line, "info:")

RECURSIVE IsSubseq(_, _)
IsSubseq(a, b) ==
    IF a = <<>> THEN TRUE
    ELSE IF b = <<>> THEN FALSE
    ELSE IF Head(a) = Head(b) THEN IsSubseq(Tail(a), Tail(b))
    ELSE IsSubseq(a, Tail(b))

\* the lines written that are no longer in the pipe
ReadSoFar(wrote, pending) == SubSeq(wrote, 1, Len(wrote) - Len(pending))

RECURSIVE OutEvents(_, _)
OutEvents(name, lines) ==
    IF lines = <<>> THEN <<>>
    ELSE StdoutEvents(name, Head(lines)) \o OutEvents(name, Tail(lines))

RECURSIVE ErrEvents(_, _)
ErrEvents(name, lines) ==
    IF lines = <<>> THEN <<>>
    ELSE StderrEvents(name, Head(lines)) \o ErrEvents(name, Tail(lines))

C33_PipeOrderKept ==
    \A p \in 1..Len(procs) :
        ~closed[procs[p].run]
           => /\ IsSubseq(OutEvents(procs[p].name,
                                    ReadSoFar(procs[p].wrote_out, procs[p].out)),
                          stream[procs[p].run])
              /\ IsSubseq(ErrEvents(procs[p].name,
                                    ReadSoFar(procs[p].wrote_err, procs[p].err)),
                          stream[procs[p].run])

\* a child wrote two different lines to stdout; both have been read and
\* their events are in the stream, the first line's before the second's
C33_Witness ==
    \E p \in 1..Len(procs) :
        /\ Len(procs[p].wrote_out) = 2
        /\ procs[p].wrote_out[1] # procs[p].wrote_out[2]
        /\ procs[p].out = <<>>
        /\ \E i, j \in 1..Len(stream[procs[p].run]) :
              /\ i < j
              /\ stream[procs[p].run][i] =
                    SourceProgress(procs[p].name, procs[p].wrote_out[1])
              /\ stream[procs[p].run][j] =
                    SourceProgress(procs[p].name, procs[p].wrote_out[2])

(***************************************************************************)
(* C34: validate_command_args reports the first violation and stops: the   *)
(* tokens are examined in order and, within a token, the injection check   *)
(* comes before the redirect check, which comes before the length check.   *)
(* So for a vector with several violating tokens the kind of the error is  *)
(* that of the earliest violating token.                                   *)
(***************************************************************************)
\* the first check a token fails
ViolationOf(token) ==
    IF ChainsCommands(token) THEN "InjectionPattern"
    ELSE IF RedirectsToDev(token) THEN "DangerousRedirect"
    ELSE IF TooLong(token) THEN "ArgumentTooLong"
    ELSE "none"

RECURSIVE FirstViolation(_)
FirstViolation(args) ==
    IF args = <<>> THEN "none"
    ELSE IF ViolationOf(Head(args)) # "none" THEN ViolationOf(Head(args))
    ELSE FirstViolation(Tail(args))

KindOf(res) ==
    IF res.ok THEN "none"
    ELSE IF InjectionPattern(res) THEN "InjectionPattern"
    ELSE IF DangerousRedirect(res) THEN "DangerousRedirect"
    ELSE IF ArgumentTooLong(res) THEN "ArgumentTooLong"
    ELSE "other"

C34_FirstViolationReported ==
    call.op = "validate_command_args"
       /\ Cardinality({ i \in DOMAIN call.arg : ViolationOf(call.arg[i]) # "none" }) >= 2
       => KindOf(call.result) = FirstViolation(call.arg)

(***************************************************************************)
(* C35: under fair scheduling every stop() that has begun returns, and     *)
(* stop() never blocks the task for ever: a task that has a pid to push    *)
(* gets the lock and pushes it, and a task whose child has exited gets     *)
(* the lock, removes the pid and goes on.                                  *)
(***************************************************************************)
C35_StopReturns ==
    /\ \A s \in StopIds :
          (stops[s].pc \in {"store", "lock", "kill"}) ~> (stops[s].pc = "done")
    /\ \A r \in RunIds :
          /\ (runs[r].pc = "push") ~> (runs[r].pc = "wait")
          /\ (runs[r].pc = "wait" /\ procs[runs[r].pid].state = "exited")
                ~> (runs[r].pc # "wait")

\* a stop() that took the lock while the task waited for its child, and
\* signalled the child, has returned and given the lock back; the task has
\* removed the pid and finished
C35_Witness ==
    \E s \in StopIds, r \in RunIds :
        /\ stops[s].pc = "done"
        /\ stops[s].sent # <<>>
        /\ pids_lock = 0
        /\ runs[r].pc = "done"
        /\ runs[r].pid \in Range(stops[s].sent)
        /\ child_pids = <<>>

(***************************************************************************)
(* C36: every descriptor of the catalog passes the validator for both of   *)
(* its commands, so that no run of a catalog manager, dry or not, is       *)
(* answered with the SourceError of a rejected name or command: the        *)
(* command is spawned.                                                     *)
(***************************************************************************)
\* the text is an error of the validator
ValidatorError(text) ==
    LET res == Err(text)
    IN  \/ UnauthorizedManager(res) \/ InjectionPattern(res)
        \/ DangerousRedirect(res) \/ ArgumentTooLong(res)

C36_CatalogPassesValidator ==
    \A r \in RunIds : \A i \in 1..Len(stream[r]) :
        stream[r][i].type = "SourceError" /\ stream[r][i].src \in CatalogIds
           => ~ValidatorError(stream[r][i].text)

(***************************************************************************)
(* C37: the test of the flag and its store of `true` are one atomic step   *)
(* with respect to other calls of run_updates(): a call that tests the     *)
(* flag while another call has passed its test and has not yet stored      *)
(* `true` is rejected, so that of two calls racing on an idle Updater one  *)
(* is accepted and the other fails with "Updates already running".         *)
(***************************************************************************)
C37_Step ==
    \A r \in RunIds :
        /\ runs[r].pc = "idle" /\ runs'[r].pc # "idle"
        /\ \E q \in RunIds \ {r} : runs[q].pc = "accepted"
        => runs'[r].pc = "rejected"

C37_TestAndSetAtomic == [][C37_Step]_vars

(***************************************************************************)
(* C38: a run skips sources only because of a stop() during that run: a    *)
(* run that has sent Completed, and during which no stop() stored `false`, *)
(* has sent SourceStarted and SourceCompleted for every selected id the    *)
(* registry holds, whatever runs and stops came before it.                 *)
(***************************************************************************)
C38_OnlyStopSkips ==
    \A r \in RunIds :
        runs[r].pc = "done" /\ ~runs[r].stopped
           => \A id \in Range(Registered(runs[r].sources)) :
                 /\ CountOf(stream[r], "SourceStarted", id) >= 1
                 /\ CountOf(stream[r], "SourceCompleted", id) >= 1

(***************************************************************************)
(* C39: in a dry run the check command is spawned as it stands, never      *)
(* through pkexec, for every descriptor, those with needs_sudo included;   *)
(* in a real update the command is spawned through pkexec exactly when     *)
(* the descriptor's needs_sudo is true.                                    *)
(***************************************************************************)
Wrapped(cmd) == <<"pkexec", "--user", "root", "sh", "-c", Join(cmd, " ")>>

C39_WrapperOnlyForUpdates ==
    \A p \in 1..Len(procs) :
        LET manager == get_manager_info(procs[p].name)
        IN  IF runs[procs[p].run].dry_run
            THEN procs[p].argv = manager.check_cmd /\ procs[p].argv[1] # "pkexec"
            ELSE IF manager.needs_sudo
            THEN procs[p].argv = Wrapped(manager.update_cmd)
            ELSE procs[p].argv = manager.update_cmd /\ procs[p].argv[1] # "pkexec"

\* a real update of a descriptor with needs_sudo has been spawned through
\* pkexec, with the update command joined into one `sh -c` line
C39_Witness ==
    \E p \in 1..Len(procs) :
        /\ ~runs[procs[p].run].dry_run
        /\ get_manager_info(procs[p].name).needs_sudo
        /\ procs[p].argv = <<"pkexec", "--user", "root", "sh", "-c", "dnf upgrade -y">>

=============================================================================
